---- MODULE Spec2Model ----
(***************************************************************************)
(* A model of the parser cursor (ParseInput, src/parser/mod.rs) and of the *)
(* AST arena (Component, src/ast/component.rs) of wrought.                 *)
(*                                                                         *)
(* A Rust value is modelled by a record or a sequence:                     *)
(*   Option<T>      None == << >>,  Some(v) == << v >>                     *)
(*   Result<T, E>   [kind |-> "Ok", val |-> v] / [kind |-> "Err", ...]     *)
(*   a panic        [kind |-> "Panic", ...]  (the call does not return)    *)
(*   PrimaryMap     a sequence; the handle h is the entry h + 1            *)
(*   HashMap        a function whose domain is the set of keys             *)
(***************************************************************************)
EXTENDS Integers, Sequences, FiniteSets, TLC

\* Bounds of the model.
MaxTokens == 2
MaxIndex == 4
MaxNum == 2
MaxCheckpoints == 2
MaxAlloc == 3
MaxOffset == 3
\* The width of usize, scaled down from 64 bits.
UsizeBits == 4

\* lexer::Token, the token kinds (the lexer is an external collaborator).
Token == {"t1", "t2"}
\* The descriptions and the features the productions pass to the errors.
Descriptions == {"d1", "d2"}
Features == {"f1"}

\* ast::Span = miette::SourceSpan, an (offset, length) pair.
Span(offset, len) == [offset |-> offset, len |-> len]

\* lexer::TokenData: a token and its span.  The i-th token of a source
\* unit covers the i-th character.
TokenData(token, i) == [token |-> token, span |-> Span(i - 1, 1)]

RECURSIVE SeqsUpTo(_, _)
SeqsUpTo(S, n) ==
    IF n = 0 THEN {<< >>}
    ELSE LET shorter == SeqsUpTo(S, n - 1)
         IN  shorter \cup {Append(s, x) : s \in {t \in shorter : Len(t) = n - 1}, x \in S}

\* The token sequences the lexer can hand to ParseInput::new.
TokenSeqs ==
    {[i \in 1..Len(ks) |-> TokenData(ks[i], i)] : ks \in SeqsUpTo(Token, MaxTokens)}

None == << >>
Some(v) == << v >>

Ok(v) == [kind |-> "Ok", val |-> v]
Err(e) == [kind |-> "Err", val |-> e]
\* A call that returns a plain value (no Result), and one that panics.
Returned(v) == [kind |-> "Returned", val |-> v]
Panic == [kind |-> "Panic", val |-> << >>]

\* enum ParserError (Base is built by the productions only).
EndOfInput == [err |-> "EndOfInput", text |-> "", token |-> None]
UnexpectedToken(description, token) ==
    [err |-> "UnexpectedToken", text |-> description, token |-> token]
NotYetSupported(feature, token) ==
    [err |-> "NotYetSupported", text |-> feature, token |-> Some(token)]

VARIABLES
    input,      \* the ParseInput: [tokens, index]
    saved,      \* the Checkpoint values the caller holds
    saved_at,   \* history: the position and the table sizes when each was taken
    nexts,      \* history: the number of calls so far, if all were next(); else -1
    component,  \* the Component (the arena)
    issued,     \* history: per table, the allocations made: [id, value, span]
    orphans,    \* history: per table, the handles allocated between a
                \* checkpoint and its restore
    other,      \* the Component of another source unit
    last        \* the last call: its name, arguments, position before, result

vars == <<input, saved, saved_at, nexts, component, issued, orphans, other, last>>

\* Vec::get(i)
Get(v, i) == IF i < Len(v) THEN Some(v[i + 1]) ELSE None

(***************************************************************************)
(* impl ParseInput.  A &mut self method yields [self, res].                *)
(***************************************************************************)
ParseInput_new(tokens) == [tokens |-> tokens, index |-> 0]

unsupported_error(self, feature) ==
    IF self.index < Len(self.tokens)
    THEN Returned(NotYetSupported(feature, self.tokens[self.index + 1].token))
    ELSE Panic   \* self.tokens[self.index]: index out of bounds

unexpected_token(self, description) ==
    LET t == Get(self.tokens, self.index)
    IN  UnexpectedToken(description, IF t = None THEN None ELSE Some(t[1].token))

checkpoint(self) == [index |-> self.index]

\* Faulty variant of restore: the position is left where it is.
restore_keep(self, ckpt) == self

restore(self, ckpt) == [self EXCEPT !.index = ckpt.index]

\* Faulty variant of done: the end itself does not count.
done_strict(self) == self.index > Len(self.tokens)

done(self) == self.index >= Len(self.tokens)

\* Faulty variant of peek: the token is consumed.
peek_advance(self) ==
    LET t == Get(self.tokens, self.index)
    IN  [self |-> [self EXCEPT !.index = @ + 1],
         res  |-> IF t = None THEN Err(EndOfInput) ELSE Ok(t[1])]

peek(self) ==
    LET t == Get(self.tokens, self.index)
    IN  [self |-> self, res |-> IF t = None THEN Err(EndOfInput) ELSE Ok(t[1])]

\* Faulty variant of next: the position is advanced before the token is read.
next_preinc(self) ==
    LET result == Get(self.tokens, self.index + 1)
    IN  [self |-> [self EXCEPT !.index = @ + 1],
         res  |-> IF result = None THEN Err(EndOfInput) ELSE Ok(result[1])]

\* Faulty variant of next: the position stops at the end.
next_capped(self) ==
    LET result == Get(self.tokens, self.index)
    IN  [self |-> [self EXCEPT !.index = IF result = None THEN @ ELSE @ + 1],
         res  |-> IF result = None THEN Err(EndOfInput) ELSE Ok(result[1])]

next(self) ==
    LET result == Get(self.tokens, self.index)
    IN  [self |-> [self EXCEPT !.index = @ + 1],
         res  |-> IF result = None THEN Err(EndOfInput) ELSE Ok(result[1])]

\* Faulty variant of assert_next: a mismatch puts the token back.
assert_next_rollback(self, token, description) ==
    LET n == next(self)
    IN  IF n.res.kind = "Err" THEN n
        ELSE IF n.res.val.token = token
             THEN [self |-> n.self, res |-> Ok(n.res.val.span)]
             ELSE [self |-> self, res |-> Err(unexpected_token(self, description))]

assert_next(self, token, description) ==
    LET n == next(self)
    IN  IF n.res.kind = "Err" THEN n
        ELSE IF n.res.val.token = token
             THEN [self |-> n.self, res |-> Ok(n.res.val.span)]
             ELSE [self |-> n.self, res |-> Err(unexpected_token(n.self, description))]

\* Faulty variant of next_if: it looks at the token with next, not peek.
next_if_consume(self, token) ==
    LET n == next(self)
    IN  IF n.res.kind = "Err" THEN [self |-> n.self, res |-> None]
        ELSE IF n.res.val.token # token THEN [self |-> n.self, res |-> None]
        ELSE [self |-> n.self, res |-> Some(n.res.val.span)]

\* Faulty variant of next_if: a match is reported and not consumed.
next_if_peekonly(self, token) ==
    LET p == peek(self)
    IN  IF p.res.kind = "Err" THEN [self |-> p.self, res |-> None]
        ELSE IF p.res.val.token # token THEN [self |-> p.self, res |-> None]
        ELSE [self |-> p.self, res |-> Some(p.res.val.span)]

\* Faulty variant of next_if: a mismatch steps one token back.
next_if_unread(self, token) ==
    LET p == peek(self)
    IN  IF p.res.kind = "Err" THEN [self |-> p.self, res |-> None]
        ELSE IF p.res.val.token # token
             THEN [self |-> [self EXCEPT !.index = IF @ > 0 THEN @ - 1 ELSE 0],
                   res  |-> None]
        ELSE LET n == next(p.self)
             IN  IF n.res.kind = "Err" THEN [self |-> n.self, res |-> None]
                 ELSE [self |-> n.self, res |-> Some(n.res.val.span)]

next_if(self, token) ==
    LET p == peek(self)
    IN  IF p.res.kind = "Err" THEN [self |-> p.self, res |-> None]
        ELSE IF p.res.val.token # token THEN [self |-> p.self, res |-> None]
        ELSE LET n == next(p.self)
             IN  IF n.res.kind = "Err" THEN [self |-> n.self, res |-> None]
                 ELSE [self |-> n.self, res |-> Some(n.res.val.span)]

has(self, num) == self.index + num <= Len(self.tokens)

\* Faulty variant of slice_next: a window that is too long eats what is left.
slice_next_partial(self, num) ==
    IF has(self, num)
    THEN [self |-> [self EXCEPT !.index = @ + num],
          res  |-> Ok(SubSeq(self.tokens, self.index + 1, self.index + num))]
    ELSE [self |-> [self EXCEPT !.index = IF @ < Len(self.tokens)
                                          THEN Len(self.tokens) ELSE @],
          res  |-> Err(EndOfInput)]

slice_next(self, num) ==
    IF has(self, num)
    THEN [self |-> [self EXCEPT !.index = @ + num],
          res  |-> Ok(SubSeq(self.tokens, self.index + 1, self.index + num))]
    ELSE [self |-> self, res |-> Err(EndOfInput)]

(***************************************************************************)
(* impl M<T> and impl MBox<T>.  The offsets and lengths are usize: an      *)
(* addition or subtraction that leaves 0 .. 2^w - 1 panics in a build with *)
(* overflow checks (checks = TRUE) and wraps in a build without them.      *)
(***************************************************************************)
UsizeModulus == 2 ^ UsizeBits

usize_add(checks, a, b) ==
    IF a + b < UsizeModulus THEN Returned(a + b)
    ELSE IF checks THEN Panic ELSE Returned((a + b) % UsizeModulus)

usize_sub(checks, a, b) ==
    IF a >= b THEN Returned(a - b)
    ELSE IF checks THEN Panic ELSE Returned((a - b) % UsizeModulus)

\* Box::new
Box(value) == [boxed |-> value]

\* Faulty variant of M::new_range: the right end is taken to be the right offset.
M_new_range_rightstart(checks, value, left, right) ==
    LET left_most == left.offset
        len == usize_sub(checks, right.offset, left_most)
    IN  IF len.kind = "Panic" THEN Panic
        ELSE Returned([span |-> Span(left_most, len.val), value |-> value])

M_new_range(checks, value, left, right) ==
    LET left_most == left.offset
        right_most == usize_add(checks, right.offset, right.len)
    IN  IF right_most.kind = "Panic" THEN Panic
        ELSE LET len == usize_sub(checks, right_most.val, left_most)
             IN  IF len.kind = "Panic" THEN Panic
                 ELSE Returned([span |-> Span(left_most, len.val), value |-> value])

MBox_new_range(checks, value, left, right) ==
    LET left_most == left.offset
        right_most == usize_add(checks, right.offset, right.len)
    IN  IF right_most.kind = "Panic" THEN Panic
        ELSE LET len == usize_sub(checks, right_most.val, left_most)
             IN  IF len.kind = "Panic" THEN Panic
                 ELSE Returned([span |-> Span(left_most, len.val), value |-> Box(value)])

(***************************************************************************)
(* impl Component.                                                         *)
(***************************************************************************)
\* PrimaryMap::push: the key of the new entry is the number of entries before.
push(map, v) == [map |-> Append(map, v), id |-> Len(map)]

\* HashMap::insert
insert(m, k, v) == [x \in (DOMAIN m) \cup {k} |-> IF x = k THEN v ELSE m[x]]

Component_new ==
    [names |-> << >>, name_spans |-> << >>,
     types |-> << >>, type_spans |-> << >>,
     statements |-> << >>, statement_spans |-> << >>]

\* Faulty variant of new_name: the span is not recorded.
new_name_nospan(self, name, span) ==
    LET p == push(self.names, name)
    IN  [self |-> [self EXCEPT !.names = p.map], id |-> p.id]

new_name(self, name, span) ==
    LET p == push(self.names, name)
    IN  [self |-> [self EXCEPT !.names = p.map,
                               !.name_spans = insert(@, p.id, span)],
         id   |-> p.id]

get_name(self, id) ==
    IF Get(self.names, id) = None THEN Panic ELSE Returned(self.names[id + 1])

\* Faulty variant of name_span: a missing span is the default span.
name_span_default(self, id) ==
    IF id \in DOMAIN self.name_spans THEN Returned(self.name_spans[id])
    ELSE Returned(Span(0, 0))

name_span(self, id) ==
    IF id \in DOMAIN self.name_spans THEN Returned(self.name_spans[id]) ELSE Panic

\* Faulty variant of new_type: the handles are counted from one.
new_type_onebased(self, valtype, span) ==
    LET p == push(self.types, valtype)
    IN  [self |-> [self EXCEPT !.types = p.map,
                               !.type_spans = insert(@, p.id + 1, span)],
         id   |-> p.id + 1]

new_type(self, valtype, span) ==
    LET p == push(self.types, valtype)
    IN  [self |-> [self EXCEPT !.types = p.map,
                               !.type_spans = insert(@, p.id, span)],
         id   |-> p.id]

get_type(self, id) ==
    IF Get(self.types, id) = None THEN Panic ELSE Returned(self.types[id + 1])

type_span(self, id) ==
    IF id \in DOMAIN self.type_spans THEN Returned(self.type_spans[id]) ELSE Panic

\* Faulty variant of new_statement: the span table is built anew.
new_statement_respan(self, statement, span) ==
    LET p == push(self.statements, statement)
    IN  [self |-> [self EXCEPT !.statements = p.map,
                               !.statement_spans = insert(<< >>, p.id, span)],
         id   |-> p.id]

new_statement(self, statement, span) ==
    LET p == push(self.statements, statement)
    IN  [self |-> [self EXCEPT !.statements = p.map,
                               !.statement_spans = insert(@, p.id, span)],
         id   |-> p.id]

get_statement(self, id) ==
    IF Get(self.statements, id) = None THEN Panic
    ELSE Returned(self.statements[id + 1])

statement_span(self, id) ==
    IF id \in DOMAIN self.statement_spans
    THEN Returned(self.statement_spans[id]) ELSE Panic

\* ast::Statement::Let(ast::Let { .. })
Let(mutable, ident, annotation, expression) ==
    [stmt |-> "Let", mutable |-> mutable, ident |-> ident,
     annotation |-> annotation, expression |-> expression]

alloc_let(self, mutable, ident, annotation, expression, span) ==
    LET let_ == Let(mutable, ident, annotation, expression)
    IN  new_statement(self, let_, span)

\* The values the productions allocate.
Names == {"x", "y"}
ValTypes == {"i32", "u64"}
LetArgs == [mutable : BOOLEAN, ident : {0}, annotation : {None, Some(0)},
            expression : {0}]
Statements == {Let(a.mutable, a.ident, a.annotation, a.expression) : a \in LetArgs}
Spans == {Span(0, 1), Span(1, 2)}

(***************************************************************************)
(* The calls a production can make.                                        *)
(***************************************************************************)
Call(op, token, text, num, before, res) ==
    [op |-> op, token |-> token, text |-> text, num |-> num,
     before |-> before, res |-> res]

\* A panic unwinds out of the parse: nothing is called after it.
Running == last.res.kind # "Panic"

NoTables == [names |-> {}, types |-> {}, statements |-> {}]

Sizes(c) ==
    [names |-> Len(c.names), types |-> Len(c.types),
     statements |-> Len(c.statements)]

InitWith(tokens) ==
    /\ input = ParseInput_new(tokens)
    /\ saved = << >>
    /\ saved_at = << >>
    /\ nexts = 0
    /\ component = Component_new
    /\ issued = [names |-> << >>, types |-> << >>, statements |-> << >>]
    /\ orphans = NoTables
    /\ other = Component_new
    /\ last = Call("new", "", "", 0, 0, Returned(<< >>))

Init == \E tokens \in TokenSeqs : InitWith(tokens)

\* A call that reads the cursor and leaves it where it is.
Reads(call) ==
    /\ Running
    /\ last' = call
    /\ nexts' = -1
    /\ UNCHANGED <<input, saved, saved_at, component, issued, orphans, other>>

\* A call that moves the cursor.
Moves(r, call) ==
    /\ Running
    /\ r.self.index <= MaxIndex
    /\ input' = r.self
    /\ last' = call
    /\ UNCHANGED <<saved, saved_at, component, issued, orphans, other>>

CallUnsupportedError(feature) ==
    Reads(Call("unsupported_error", "", feature, 0, input.index,
               unsupported_error(input, feature)))

CallUnexpectedToken(description) ==
    Reads(Call("unexpected_token", "", description, 0, input.index,
               Returned(unexpected_token(input, description))))

CallCheckpoint ==
    /\ Running
    /\ Len(saved) < MaxCheckpoints
    /\ saved' = Append(saved, checkpoint(input))
    /\ saved_at' = Append(saved_at, [index |-> input.index, sizes |-> Sizes(component)])
    /\ last' = Call("checkpoint", "", "", 0, input.index, Returned(checkpoint(input)))
    /\ nexts' = -1
    /\ UNCHANGED <<input, component, issued, orphans, other>>

\* The entries of table t allocated since the k-th checkpoint was taken.
Since(k, t) == {h \in 0..(MaxAlloc + 1) : saved_at[k].sizes[t] <= h /\ h < Sizes(component)[t]}

\* The component cut back to the given table sizes.
Truncated(c, sizes) ==
    [names |-> SubSeq(c.names, 1, sizes.names),
     name_spans |-> [h \in {x \in DOMAIN c.name_spans : x < sizes.names} |-> c.name_spans[h]],
     types |-> SubSeq(c.types, 1, sizes.types),
     type_spans |-> [h \in {x \in DOMAIN c.type_spans : x < sizes.types} |-> c.type_spans[h]],
     statements |-> SubSeq(c.statements, 1, sizes.statements),
     statement_spans |-> [h \in {x \in DOMAIN c.statement_spans : x < sizes.statements}
                            |-> c.statement_spans[h]]]

\* Faulty variant of the restore call: the arena is rolled back with the cursor.
CallRestore_rollback(k) ==
    /\ Running
    /\ input' = restore(input, saved[k])
    /\ last' = Call("restore", "", "", k, input.index, Returned(<< >>))
    /\ nexts' = -1
    /\ orphans' = [t \in DOMAIN orphans |-> orphans[t] \cup Since(k, t)]
    /\ component' = Truncated(component, saved_at[k].sizes)
    /\ UNCHANGED <<saved, saved_at, issued, other>>

\* Faulty variant of the restore call: the checkpoints are a stack, and a
\* restore pops the checkpoint and those taken after it.
CallRestore_pop(k) ==
    /\ Running
    /\ input' = restore(input, saved[k])
    /\ last' = Call("restore", "", "", k, input.index, Returned(<< >>))
    /\ nexts' = -1
    /\ orphans' = [t \in DOMAIN orphans |-> orphans[t] \cup Since(k, t)]
    /\ saved' = SubSeq(saved, 1, k - 1)
    /\ UNCHANGED <<saved_at, component, issued, other>>

CallRestore(k) ==
    /\ Running
    /\ input' = restore(input, saved[k])
    /\ last' = Call("restore", "", "", k, input.index, Returned(<< >>))
    /\ nexts' = -1
    /\ orphans' = [t \in DOMAIN orphans |-> orphans[t] \cup Since(k, t)]
    /\ UNCHANGED <<saved, saved_at, component, issued, other>>

CallDone ==
    Reads(Call("done", "", "", 0, input.index, Returned(done(input))))

CallPeek ==
    LET r == peek(input)
    IN  /\ Moves(r, Call("peek", "", "", 0, input.index, r.res))
        /\ nexts' = -1

CallNext ==
    LET r == next(input)
    IN  /\ Moves(r, Call("next", "", "", 0, input.index, r.res))
        /\ nexts' = IF nexts >= 0 THEN nexts + 1 ELSE -1

CallAssertNext(token, description) ==
    LET r == assert_next(input, token, description)
    IN  /\ Moves(r, Call("assert_next", token, description, 0, input.index, r.res))
        /\ nexts' = -1

CallNextIf(token) ==
    LET r == next_if(input, token)
    IN  /\ Moves(r, Call("next_if", token, "", 0, input.index, Returned(r.res)))
        /\ nexts' = -1

CallHas(num) ==
    Reads(Call("has", "", "", num, input.index, Returned(has(input, num))))

CallSliceNext(num) ==
    LET r == slice_next(input, num)
    IN  /\ Moves(r, Call("slice_next", "", "", num, input.index, r.res))
        /\ nexts' = -1

\* An allocation: r is what new_X returned, t the table, value and span its arguments.
Allocates(r, t, op, value, span) ==
    /\ Running
    /\ Len(component.names) + Len(component.types) + Len(component.statements) < MaxAlloc
    /\ component' = r.self
    /\ issued' = [issued EXCEPT ![t] = Append(@, [id |-> r.id, value |-> value, span |-> span])]
    /\ last' = Call(op, "", "", 0, input.index, Returned(r.id))
    /\ UNCHANGED <<input, saved, saved_at, nexts, orphans, other>>

CallNewName(name, span) ==
    Allocates(new_name(component, name, span), "names", "new_name", name, span)

CallNewType(valtype, span) ==
    Allocates(new_type(component, valtype, span), "types", "new_type", valtype, span)

CallNewStatement(statement, span) ==
    Allocates(new_statement(component, statement, span), "statements",
              "new_statement", statement, span)

CallAllocLet(a, span) ==
    Allocates(alloc_let(component, a.mutable, a.ident, a.annotation, a.expression, span),
              "statements", "alloc_let",
              Let(a.mutable, a.ident, a.annotation, a.expression), span)

NextCursor ==
    \/ \E feature \in Features : CallUnsupportedError(feature)
    \/ \E description \in Descriptions : CallUnexpectedToken(description)
    \/ CallCheckpoint
    \/ \E k \in 1..Len(saved) : CallRestore(k)
    \/ CallDone
    \/ CallPeek
    \/ CallNext
    \/ \E token \in Token, description \in Descriptions : CallAssertNext(token, description)
    \/ \E token \in Token : CallNextIf(token)
    \/ \E num \in 0..MaxNum : CallHas(num)
    \/ \E num \in 0..MaxNum : CallSliceNext(num)

NextArena ==
    \/ \E name \in Names, span \in Spans : CallNewName(name, span)
    \/ \E valtype \in ValTypes, span \in Spans : CallNewType(valtype, span)
    \/ \E statement \in Statements, span \in Spans : CallNewStatement(statement, span)
    \/ \E a \in LetArgs, span \in Spans : CallAllocLet(a, span)

\* The cursor alone, over every token sequence.
SpecCursor == Init /\ [][NextCursor]_vars

\* The arena alone.
SpecArena == InitWith(<< >>) /\ [][NextArena]_vars

\* A speculative production over a two-token source unit: it takes a
\* checkpoint, consumes tokens, allocates what it recognised, and backtracks
\* (any number of times).
LetX == [mutable |-> FALSE, ident |-> 0, annotation |-> None, expression |-> 0]

NextBacktrack ==
    \/ saved = << >> /\ CallCheckpoint
    \/ \E k \in 1..Len(saved) : CallRestore(k)
    \/ CallNext
    \/ CallNewName("x", Span(0, 1))
    \/ CallNewType("i32", Span(1, 2))
    \/ CallAllocLet(LetX, Span(0, 1))

SpecBacktrack ==
    InitWith(<<TokenData("t1", 1), TokenData("t2", 2)>>) /\ [][NextBacktrack]_vars

\* The offsets and lengths of the spans, and the values, handed to new_range.
RangeNums == 0..MaxOffset
RangeValues == {"v1", "v2"}

\* A call of new_range: the build, the arguments and the result.
RangeCall(op, checks, value, left, right, res) ==
    [res |-> res, checks |-> checks, value |-> value, left |-> left,
     right |-> right, op |-> op]

\* The arguments of a new_range call, drawn before the call.
InitSpan ==
    /\ input = ParseInput_new(<< >>)
    /\ saved = << >>
    /\ saved_at = << >>
    /\ nexts = 0
    /\ component = Component_new
    /\ issued = [names |-> << >>, types |-> << >>, statements |-> << >>]
    /\ orphans = NoTables
    /\ other = Component_new
    /\ \E checks \in BOOLEAN, value \in RangeValues, o1, l1, o2, l2 \in RangeNums :
           last = RangeCall("args", checks, value, Span(o1, l1), Span(o2, l2),
                            Returned(<< >>))

\* A call that touches neither the cursor nor the arena.
Computes(call) ==
    /\ Running
    /\ last' = call
    /\ UNCHANGED <<input, saved, saved_at, nexts, component, issued, orphans, other>>

CallMNewRange ==
    Computes(RangeCall("M::new_range", last.checks, last.value, last.left, last.right,
                       M_new_range(last.checks, last.value, last.left, last.right)))

CallMBoxNewRange ==
    Computes(RangeCall("MBox::new_range", last.checks, last.value, last.left, last.right,
                       MBox_new_range(last.checks, last.value, last.left, last.right)))

NextSpan ==
    \/ CallMNewRange
    \/ CallMBoxNewRange

\* The wrappers alone, in either build, on the drawn arguments.
SpecSpan == InitSpan /\ [][NextSpan]_vars

\* Where the caller of get_X or X_span has the handle from: the component
\* itself issued it ("own"), the component of the other source unit did
\* ("other"), or the caller made it from a number ("forged").
Origins == {"own", "other", "forged"}

HandleFrom(from, t, id) ==
    CASE from = "own" -> id < Sizes(component)[t]
      [] from = "other" -> id < Sizes(other)[t]
      [] from = "forged" -> TRUE

\* A get_X or X_span on the component, with a handle for the table t.
Looks(op, t, from, id, res) ==
    /\ Running
    /\ HandleFrom(from, t, id)
    /\ last' = Call(op, "", from, id, input.index, res)
    /\ UNCHANGED <<input, saved, saved_at, nexts, component, issued, orphans, other>>

CallGetName(from, id) ==
    Looks("get_name", "names", from, id, get_name(component, id))

CallNameSpan(from, id) ==
    Looks("name_span", "names", from, id, name_span(component, id))

CallGetType(from, id) ==
    Looks("get_type", "types", from, id, get_type(component, id))

CallTypeSpan(from, id) ==
    Looks("type_span", "types", from, id, type_span(component, id))

CallGetStatement(from, id) ==
    Looks("get_statement", "statements", from, id, get_statement(component, id))

CallStatementSpan(from, id) ==
    Looks("statement_span", "statements", from, id, statement_span(component, id))

\* An allocation on the component of the other source unit.
OtherAllocates(r, op) ==
    /\ Running
    /\ Len(other.names) + Len(other.types) + Len(other.statements) < MaxAlloc
    /\ other' = r.self
    /\ last' = Call(op, "", "", 0, input.index, Returned(r.id))
    /\ UNCHANGED <<input, saved, saved_at, nexts, component, issued, orphans>>

OtherNewName(name, span) == OtherAllocates(new_name(other, name, span), "other.new_name")

OtherNewType(valtype, span) == OtherAllocates(new_type(other, valtype, span), "other.new_type")

OtherAllocLet(a, span) ==
    OtherAllocates(alloc_let(other, a.mutable, a.ident, a.annotation, a.expression, span),
                   "other.alloc_let")

LetY == [mutable |-> TRUE, ident |-> 0, annotation |-> Some(0), expression |-> 0]

\* Two source units, each with its component, and a caller that looks
\* handles up in the first.
NextForeign ==
    \/ CallNewName("x", Span(0, 1))
    \/ CallNewType("i32", Span(1, 2))
    \/ CallAllocLet(LetX, Span(0, 1))
    \/ OtherNewName("y", Span(1, 2))
    \/ OtherNewType("u64", Span(0, 1))
    \/ OtherAllocLet(LetY, Span(1, 2))
    \/ \E from \in Origins, id \in 0..MaxAlloc : CallGetName(from, id)
    \/ \E from \in Origins, id \in 0..MaxAlloc : CallNameSpan(from, id)
    \/ \E from \in Origins, id \in 0..MaxAlloc : CallGetType(from, id)
    \/ \E from \in Origins, id \in 0..MaxAlloc : CallTypeSpan(from, id)
    \/ \E from \in Origins, id \in 0..MaxAlloc : CallGetStatement(from, id)
    \/ \E from \in Origins, id \in 0..MaxAlloc : CallStatementSpan(from, id)

SpecForeign == InitWith(<< >>) /\ [][NextForeign]_vars

(***************************************************************************)
(* Properties.                                                             *)
(***************************************************************************)
Tokens == input.tokens
NTokens == Len(input.tokens)

\* C1 (checkpoint restore law): a restore of a checkpoint puts the position
\* back to the position the cursor had when that checkpoint was taken,
\* whatever was called in between.
C1_CheckpointRestore ==
    last.op = "restore" => input.index = saved_at[last.num].index

\* C1: a restore from a position past the end back to a position inside the
\* token sequence.
C1_Witness ==
    /\ last.op = "restore"
    /\ last.before > NTokens
    /\ input.index < NTokens
    /\ input.index = saved_at[last.num].index

\* C2 (next_if non-advancement): when no token remains or the token at the
\* position differs from the probed one, next_if returns None and leaves the
\* position where it was, so peek sees what it saw before the call.
C2_NextIfNoAdvance ==
    (/\ last.op = "next_if"
     /\ \/ last.before >= NTokens
        \/ Tokens[last.before + 1].token # last.token)
    => /\ last.res.val = None
       /\ input.index = last.before
       /\ peek(input).res = peek([input EXCEPT !.index = last.before]).res

\* C2: a next_if that met a token other than the probed one.
C2_Witness ==
    /\ last.op = "next_if"
    /\ last.before < NTokens
    /\ Tokens[last.before + 1].token # last.token
    /\ last.res.val = None
    /\ input.index = last.before

\* C3 (assert_next consumption): with a token at position p, assert_next
\* leaves the position at p + 1, on a match and on a mismatch alike.
C3_AssertNextConsumes ==
    (last.op = "assert_next" /\ last.before < NTokens)
    => /\ input.index = last.before + 1
       /\ last.res.kind = "Ok" <=> Tokens[last.before + 1].token = last.token

\* C3: an assert_next that failed on a mismatch and consumed the token.
C3_Witness ==
    /\ last.op = "assert_next"
    /\ last.before < NTokens
    /\ last.res.kind = "Err"
    /\ last.res.val.err = "UnexpectedToken"
    /\ input.index = last.before + 1

\* C4 (assert_next error precision): a mismatch at position p fails with
\* UnexpectedToken carrying the given description and the token at p.
C4_ErrorNamesFoundToken ==
    (/\ last.op = "assert_next"
     /\ last.before < NTokens
     /\ Tokens[last.before + 1].token # last.token)
    => /\ last.res.kind = "Err"
       /\ last.res.val = UnexpectedToken(last.text, Some(Tokens[last.before + 1].token))

Tables == {"names", "types", "statements"}

\* C5 (handle monotonicity): in each table the n-th allocation, counted from
\* 0, returned handle n; so each handle is greater than all handles issued
\* before it for that table, and none is issued twice, whatever was
\* allocated on the other tables.
C5_HandlesCountFromZero ==
    \A t \in Tables :
        /\ \A n \in 1..Len(issued[t]) : issued[t][n].id = n - 1
        /\ \A i, j \in 1..Len(issued[t]) : i < j => issued[t][i].id < issued[t][j].id

\* C5: two allocations on one table with one on another table besides.
C5_Witness ==
    /\ Len(issued.types) >= 2
    /\ Len(issued.names) + Len(issued.statements) >= 1
    /\ last.op = "new_type"

\* get_X and X_span of the table t.
GetOf(t, c, id) ==
    CASE t = "names" -> get_name(c, id)
      [] t = "types" -> get_type(c, id)
      [] t = "statements" -> get_statement(c, id)

SpanOf(t, c, id) ==
    CASE t = "names" -> name_span(c, id)
      [] t = "types" -> type_span(c, id)
      [] t = "statements" -> statement_span(c, id)

\* C6 (append-only arena): whatever was allocated since, get_X of a handle
\* returns the value it was allocated with, and X_span the span.
C6_EntriesKeepValueAndSpan ==
    \A t \in Tables :
        \A n \in 1..Len(issued[t]) :
            LET e == issued[t][n]
                v == GetOf(t, component, e.id)
                s == SpanOf(t, component, e.id)
            IN  /\ v.kind = "Returned" /\ v.val = e.value
                /\ s.kind = "Returned" /\ s.val = e.span

\* C6: a statement allocated with a span, then a let with another span, and
\* an entry of another table.
C6_Witness ==
    /\ Len(issued.statements) >= 2
    /\ issued.statements[1].span # issued.statements[2].span
    /\ issued.statements[1].value # issued.statements[2].value
    /\ Len(issued.names) + Len(issued.types) >= 1
    /\ last.op = "alloc_let"

AllocOps == {"new_name", "new_type", "new_statement", "alloc_let"}

TableOf(op) ==
    CASE op = "new_name" -> "names"
      [] op = "new_type" -> "types"
      [] op \in {"new_statement", "alloc_let"} -> "statements"

\* C7 (backtracking does not roll back the arena): a restore leaves every
\* table and span table as it was; the entries allocated between a
\* checkpoint and its restore stay in the arena, and an allocation made
\* after the restore gets a handle greater than theirs.
C7_RestoreKeepsArena ==
    /\ [][last'.op = "restore" => component' = component]_vars
    /\ [](\A t \in Tables : \A h \in orphans[t] :
            /\ GetOf(t, component, h).kind = "Returned"
            /\ SpanOf(t, component, h).kind = "Returned")
    /\ [](last.op \in AllocOps =>
            \A h \in orphans[TableOf(last.op)] : last.res.val > h)

\* C7: an allocation on a table that holds an orphan.
C7_Witness ==
    /\ last.op = "new_name"
    /\ orphans.names # {}
    /\ input.index = saved_at[1].index

\* C8 (failures are values): no cursor operation and no error constructor
\* panics, at any position.
C8_NoPanic == last.res.kind # "Panic"

\* The number of tokens from position p on.
Remaining(p) == IF p < NTokens THEN NTokens - p ELSE 0

C10_NextInOrder ==
    /\ (last.op = "next" /\ nexts >= 1 /\ nexts <= NTokens) =>
         /\ last.res.kind = "Ok"
         /\ last.res.val = Tokens[nexts]
         /\ input.index = nexts
    /\ (last.op = "next" /\ last.before >= NTokens) =>
         /\ last.res.kind = "Err"
         /\ last.res.val = EndOfInput

\* C10: every token was returned by next, and the next after them failed.
C10_Witness ==
    /\ last.op = "next"
    /\ NTokens >= 2
    /\ nexts = NTokens + 1
    /\ last.res.kind = "Err"

\* C11 (peek is pure lookahead): peek returns the token at the position, or
\* fails with EndOfInput when there is none, and leaves the position where
\* it was; so another peek returns the same, and a next returns what peek
\* returned.
C11_PeekIsLookahead ==
    last.op = "peek" =>
        /\ IF last.before < NTokens
           THEN last.res.kind = "Ok" /\ last.res.val = Tokens[last.before + 1]
           ELSE last.res.kind = "Err" /\ last.res.val = EndOfInput
        /\ input.index = last.before
        /\ peek(input).res = last.res
        /\ next(input).res = last.res

\* C11: a peek that returned the second token.
C11_Witness ==
    /\ last.op = "peek"
    /\ last.before = 1
    /\ last.res.kind = "Ok"
    /\ input.index = 1

\* C12 (next_if on a match): when the token at position p equals the probed
\* one, next_if returns the span of tokens[p] and moves to p + 1.
C12_NextIfOnMatch ==
    (/\ last.op = "next_if"
     /\ last.before < NTokens
     /\ Tokens[last.before + 1].token = last.token)
    => /\ last.res.val = Some(Tokens[last.before + 1].span)
       /\ input.index = last.before + 1

\* C12: a next_if that matched the second token.
C12_Witness ==
    /\ last.op = "next_if"
    /\ last.before = 1
    /\ last.res.val # None
    /\ input.index = 2

\* C16 (done agrees with lookahead): done is true exactly when the position
\* is at or past the number of tokens, which is exactly when peek fails with
\* EndOfInput; done leaves the position where it was.
C16_DoneIffPeekFails ==
    last.op = "done" =>
        /\ last.res.val <=> last.before >= NTokens
        /\ last.res.val <=> (peek(input).res.kind = "Err"
                             /\ peek(input).res.val = EndOfInput)
        /\ input.index = last.before

\* C16: done is true with the position exactly at the end of a sequence
\* that holds tokens.
C16_Witness ==
    /\ last.op = "done"
    /\ last.res.val
    /\ NTokens >= 1
    /\ last.before = NTokens

\* C17 (nested checkpoints are independent): every checkpoint the caller
\* holds keeps the position it captured, whatever was taken, restored or
\* consumed since, and a restore of any of them, a first or a repeated one,
\* an inner or an outer one, puts the cursor at that position.
C17_CheckpointsIndependent ==
    /\ Len(saved) = Len(saved_at)
    /\ \A k \in 1..Len(saved_at) : saved[k] = [index |-> saved_at[k].index]
    /\ last.op = "restore" =>
         /\ last.num \in 1..Len(saved)
         /\ input.index = saved[last.num].index

\* C17: with an inner checkpoint taken further on than the outer one, a
\* restore of the outer one from the inner one's position.
C17_Witness ==
    /\ last.op = "restore"
    /\ last.num = 1
    /\ Len(saved) >= 2
    /\ saved_at[1].index < saved_at[2].index
    /\ last.before = saved_at[2].index
    /\ input.index = saved_at[1].index

\* C18 (next runs past the end): a next or an assert_next with no token at
\* the position fails with EndOfInput and still adds one to the position, so
\* after only next calls the position is their number, beyond the token
\* count; a checkpoint records the position it is taken at, past the end too.
C18_NextRunsPastEnd ==
    /\ (last.op \in {"next", "assert_next"} /\ last.before >= NTokens) =>
         /\ last.res.kind = "Err"
         /\ last.res.val = EndOfInput
         /\ input.index = last.before + 1
         /\ input.index > NTokens
    /\ (last.op = "next" /\ nexts > NTokens) => input.index = nexts
    /\ last.op = "checkpoint" =>
         /\ last.res.val = [index |-> last.before]
         /\ saved[Len(saved)] = [index |-> last.before]
         /\ input.index = last.before

\* C18: a checkpoint taken two positions past the end.
C18_Witness ==
    /\ last.op = "checkpoint"
    /\ last.before = NTokens + 2
    /\ saved[Len(saved)].index = NTokens + 2

\* C19 (the position only grows): no call but restore lowers the position,
\* so once done is true it stays true as long as nothing is restored.
C19_PositionOnlyGrows ==
    [][last'.op # "restore" =>
         /\ input'.index >= input.index
         /\ done(input) => done(input')]_vars

\* C19: a call other than restore made with done true, which moved the
\* position further.
C19_Witness ==
    /\ last.op \in {"next", "assert_next"}
    /\ last.before >= NTokens
    /\ input.index > last.before
    /\ done(input)

\* The span table of the table t.
SpanTable(t, c) ==
    CASE t = "names" -> c.name_spans
      [] t = "types" -> c.type_spans
      [] t = "statements" -> c.statement_spans

\* C20 (span tables follow the handles): the keys of each span table are
\* exactly the handles issued for its table, so X_span succeeds for each of
\* them.
C20_SpanKeysAreHandles ==
    \A t \in Tables :
        /\ DOMAIN SpanTable(t, component) = {issued[t][n].id : n \in 1..Len(issued[t])}
        /\ Cardinality(DOMAIN SpanTable(t, component)) = Len(issued[t])
        /\ \A n \in 1..Len(issued[t]) :
               SpanOf(t, component, issued[t][n].id).kind = "Returned"

\* C20: a name, and two statements of which one came from alloc_let.
C20_Witness ==
    /\ Len(issued.names) >= 1
    /\ Len(issued.statements) >= 2
    /\ last.op \in {"alloc_let", "new_statement"}
    /\ DOMAIN component.statement_spans = {0, 1}

RangeOps == {"M::new_range", "MBox::new_range"}

\* The value a wrapper of the kind op holds for v.
Held(op, v) == IF op = "MBox::new_range" THEN Box(v) ELSE v

\* The span merge law where right ends at or after the start of left.
MergesLawfully ==
    (last.op \in RangeOps /\ last.right.offset + last.right.len >= last.left.offset) =>
        /\ last.res.kind = "Returned"
        /\ last.res.val.span = Span(last.left.offset,
                                    last.right.offset + last.right.len - last.left.offset)
        /\ last.res.val.value = Held(last.op, last.value)

\* C13 as stated (span merge law): with o2 + l2 >= o1 new_range yields the
\* span (o1, o2 + l2 - o1) and the given value, for M and MBox alike; with
\* o2 + l2 < o1 the subtraction underflows and no span is produced.
C13_UnderflowYieldsNoSpan ==
    /\ MergesLawfully
    /\ (last.op \in RangeOps /\ last.right.offset + last.right.len < last.left.offset) =>
         last.res.kind = "Panic"

\* C13 as amended: with o2 + l2 >= o1 as stated; with o2 + l2 < o1 the
\* subtraction underflows: a build with overflow checks panics, a build
\* without them yields the span (o1, o2 + l2 - o1 + 2^w), w the width of
\* usize, with the given value.
C13_SpanMergeLaw ==
    /\ MergesLawfully
    /\ (last.op \in RangeOps /\ last.right.offset + last.right.len < last.left.offset) =>
         IF last.checks THEN last.res.kind = "Panic"
         ELSE /\ last.res.kind = "Returned"
              /\ last.res.val.span =
                     Span(last.left.offset,
                          last.right.offset + last.right.len - last.left.offset
                              + UsizeModulus)
              /\ last.res.val.value = Held(last.op, last.value)

\* C13: a boxed wrapper over two spans with a gap between them.
C13_Witness ==
    /\ last.op = "MBox::new_range"
    /\ last.left.len >= 1
    /\ last.right.len >= 1
    /\ last.right.offset > last.left.offset + last.left.len
    /\ last.res.kind = "Returned"
    /\ last.res.val.span.offset = last.left.offset
    /\ last.res.val.span.len > last.left.len + last.right.len
    /\ last.res.val.value = Box(last.value)

GetOps == {"get_name", "get_type", "get_statement"}
SpanOps == {"name_span", "type_span", "statement_span"}

LookedTable(op) ==
    CASE op \in {"get_name", "name_span"} -> "names"
      [] op \in {"get_type", "type_span"} -> "types"
      [] op \in {"get_statement", "statement_span"} -> "statements"

\* Whether the component itself issued a handle of this value for the table.
IssuedHere(t, id) == \E n \in 1..Len(issued[t]) : issued[t][n].id = id

\* C14 as stated (foreign or forged handles fail fatally): get_X and X_span
\* panic on a handle the other component issued, and on a forged handle the
\* component issued no equal of.
C14_ForeignHandlePanics ==
    (/\ last.op \in GetOps \cup SpanOps
     /\ \/ last.text = "other"
        \/ last.text = "forged" /\ ~IssuedHere(LookedTable(last.op), last.num))
    => last.res.kind = "Panic"

\* C14 as amended: get_X and X_span panic exactly on the handles whose index
\* is not below the number of entries of the table, wherever the handle is
\* from; a handle of the other component, or a forged one, whose index is
\* below it gets the component's own entry of that index.
C14_OutOfRangeHandlePanics ==
    last.op \in GetOps \cup SpanOps =>
        LET t == LookedTable(last.op)
        IN  IF last.num >= Sizes(component)[t]
            THEN last.res.kind = "Panic"
            ELSE /\ last.res.kind = "Returned"
                 /\ last.op \in GetOps => last.res.val = issued[t][last.num + 1].value
                 /\ last.op \in SpanOps => last.res.val = issued[t][last.num + 1].span

\* C14: the span of a name handle of the other component that is beyond
\* the names of this one.
C14_Witness ==
    /\ last.op = "name_span"
    /\ last.text = "other"
    /\ Len(component.names) >= 1
    /\ last.num >= Len(component.names)
    /\ last.res.kind = "Panic"

====
